---- MODULE Spec2Model ----
(***************************************************************************)
(* Word-level bigram language model (outloud_mini_lm.py, class BigramModel) *)
(*                                                                         *)
(* Text is a sequence of one-character strings, a token is the sub-        *)
(* sequence of characters the tokenizer's regular expression matched.  A   *)
(* Python dict is a sequence of <<key, value>> pairs in insertion order    *)
(* (dicts iterate in insertion order), a Python set is its insertion       *)
(* history together with the process's string-hash seed (sets iterate in   *)
(* hash-slot order, which PYTHONHASHSEED randomises per process).          *)
(* A cumulative probability is the exact fraction <<num, den>>; the float  *)
(* the program stores is the rounding of that fraction.                    *)
(***************************************************************************)
EXTENDS Integers, Sequences, FiniteSets, TLC

\* ---------------------------------------------------------------- bounds

\* Corpus lines one BigramModel object is trained on, over all train calls.
MaxLines == 2
\* Largest max_tokens a sample call is given.
MaxTokens == 2

\* ----------------------------------------------------------------- state

VARIABLES
    bigram_counts,      \* self.bigram_counts
    word_counts,        \* self.word_counts
    cumulative_probs,   \* self.cumulative_probs
    rng,                \* state of the random module's shared generator
    hashSeed,           \* string-hash seed of the running process
    file,               \* the model file: missing, invalid JSON, or its JSON
    proc,               \* "running", or "exited" after exit(1)
    call,               \* per caller, the frame of its sample call
    seen,               \* history: the corpus lines behind the object's counts
    loaded,             \* history: load_model replaced the counts since __init__
    last,               \* history: the last model operation and its outcome
    saved               \* history: the model save_model was last called on

vars == <<bigram_counts, word_counts, cumulative_probs, rng, hashSeed, file,
          proc, call, seen, loaded, last, saved>>

model == <<bigram_counts, word_counts, cumulative_probs>>

\* ----------------------------------------------------------- characters

WordChars == {"a", "b", "A", "B"}

Quote == "\""

None == "None"

\* str.lower() on one character.
LowerChar(c) == IF c = "A" THEN "a" ELSE IF c = "B" THEN "b" ELSE c

\* str.lower()
Lower(s) == [i \in 1..Len(s) |-> LowerChar(s[i])]

RECURSIVE LStrip(_)
LStrip(s) == IF s # <<>> /\ Head(s) = " " THEN LStrip(Tail(s)) ELSE s

RECURSIVE RStrip(_)
RStrip(s) ==
    IF s # <<>> /\ s[Len(s)] = " " THEN RStrip(SubSeq(s, 1, Len(s) - 1)) ELSE s

\* str.strip()
Strip(s) == RStrip(LStrip(s))

\* ------------------------------------------------------------ tokenizer

\* First index >= i of s that holds no word character (Len(s)+1 if none):
\* the end of the greedy \w+ run that starts at i.
RECURSIVE WordEnd(_, _)
WordEnd(s, i) ==
    IF i <= Len(s) /\ s[i] \in WordChars THEN WordEnd(s, i + 1) ELSE i

\* Index of the first '"' at or after i, 0 if there is none: [^"]*" .
RECURSIVE QuoteEnd(_, _)
QuoteEnd(s, i) ==
    IF i > Len(s) THEN 0
    ELSE IF s[i] = Quote THEN i
    ELSE QuoteEnd(s, i + 1)

\* re.findall(r'\w+="[^"]*"|\w+', s) scanning from index i.
RECURSIVE FindAll(_, _)
FindAll(s, i) ==
    IF i > Len(s) THEN <<>>
    ELSE IF s[i] \notin WordChars THEN FindAll(s, i + 1)
    ELSE LET e == WordEnd(s, i)
             q == IF e + 1 <= Len(s) /\ s[e] = "=" /\ s[e + 1] = Quote
                  THEN QuoteEnd(s, e + 2)
                  ELSE 0
             stop == IF q > 0 THEN q ELSE e - 1
         IN  <<SubSeq(s, i, stop)>> \o FindAll(s, stop + 1)

tokenize(text) == FindAll(text, 1)

\* ---------------------------------------------------------------- dicts

RECURSIVE IndexOf(_, _, _)
IndexOf(d, k, i) ==
    IF i > Len(d) THEN 0
    ELSE IF d[i][1] = k THEN i
    ELSE IndexOf(d, k, i + 1)

\* k in d
Has(d, k) == IndexOf(d, k, 1) > 0

\* d.get(k, default)
Get(d, k, default) ==
    LET i == IndexOf(d, k, 1) IN IF i > 0 THEN d[i][2] ELSE default

\* d[k] = v : an existing key keeps its place, a new key goes last.
Put(d, k, v) ==
    LET i == IndexOf(d, k, 1)
    IN  IF i > 0 THEN [d EXCEPT ![i] = <<k, v>>] ELSE Append(d, <<k, v>>)

Keys(d) == {d[i][1] : i \in 1..Len(d)}

\* ------------------------------------------------------------- training

\* Lines 59-60: word_counts[token] = word_counts.get(token, 0) + 1, per token.
RECURSIVE AddWords(_, _, _)
AddWords(wc, tokens, i) ==
    IF i > Len(tokens) THEN wc
    ELSE AddWords(Put(wc, tokens[i], Get(wc, tokens[i], 0) + 1), tokens, i + 1)

\* AddBigrams with the loop one short, range(len(tokens) - 2): the last
\* pair of every line goes uncounted.
RECURSIVE AddBigramsShort(_, _, _)
AddBigramsShort(bc, tokens, i) ==
    IF i > Len(tokens) - 2 THEN bc
    ELSE LET bigram == <<tokens[i], tokens[i + 1]>>
         IN  AddBigramsShort(Put(bc, bigram, Get(bc, bigram, 0) + 1), tokens, i + 1)

\* Lines 63-65: for i in range(len(tokens) - 1), count (tokens[i], tokens[i+1]).
RECURSIVE AddBigrams(_, _, _)
AddBigrams(bc, tokens, i) ==
    IF i > Len(tokens) - 1 THEN bc
    ELSE LET bigram == <<tokens[i], tokens[i + 1]>>
         IN  AddBigrams(Put(bc, bigram, Get(bc, bigram, 0) + 1), tokens, i + 1)

\* The body of "for line in f" (lines 54-65) on the counts m = [bc, wc].
TrainLine(m, line) ==
    LET tokens == tokenize(Lower(Strip(line)))
    IN  IF tokens = <<>> THEN m
        ELSE [bc |-> AddBigrams(m.bc, tokens, 1),
              wc |-> AddWords(m.wc, tokens, 1)]

\* The loop of train over the corpus file's lines, from line i on.
RECURSIVE TrainLines(_, _, _)
TrainLines(m, corpus, i) ==
    IF i > Len(corpus) THEN m
    ELSE TrainLines(TrainLine(m, corpus[i]), corpus, i + 1)

\* -------------------------------------------------------- distributions

\* set.add on a set given by its insertion history.
SetAdd(ins, x) ==
    IF \E i \in 1..Len(ins) : ins[i] = x THEN ins ELSE Append(ins, x)

\* get_following_words: dict first_word -> set of second words, scanning
\* bigram_counts.items() from index i on.
RECURSIVE FollowingFrom(_, _, _)
FollowingFrom(bc, fw, i) ==
    IF i > Len(bc) THEN fw
    ELSE LET first_word == bc[i][1][1]
             second_word == bc[i][1][2]
         IN  FollowingFrom(bc,
                 Put(fw, first_word, SetAdd(Get(fw, first_word, <<>>), second_word)),
                 i + 1)

get_following_words(bc) == FollowingFrom(bc, <<>>, 1)

\* Slots of the hash table of a small set.
TableSize == 8

CharCode(c) ==
    IF c = "a" THEN 1 ELSE IF c = "b" THEN 2 ELSE IF c = "=" THEN 3
    ELSE IF c = Quote THEN 4 ELSE 5

RECURSIVE StrCode(_, _)
StrCode(t, i) ==
    IF i > Len(t) THEN 0 ELSE (CharCode(t[i]) + 3 * StrCode(t, i + 1)) % TableSize

\* The slot of string t in a set's table under hash seed hs: a stand-in for
\* hash(t) & mask, which depends on the per-process PYTHONHASHSEED.
HashSlot(t, hs) == (StrCode(t, 1) * (1 + 6 * hs)) % TableSize

\* Iteration order of a set: by table slot; elements whose slots collide
\* keep their insertion order.
RECURSIVE SetIter(_, _)
SetIter(ins, hs) ==
    IF ins = <<>> THEN <<>>
    ELSE LET Before(i, j) ==
                 \/ HashSlot(ins[i], hs) < HashSlot(ins[j], hs)
                 \/ HashSlot(ins[i], hs) = HashSlot(ins[j], hs) /\ i <= j
             m == CHOOSE i \in 1..Len(ins) : \A j \in 1..Len(ins) : Before(i, j)
         IN  <<ins[m]>> \o
             SetIter([k \in 1..(Len(ins) - 1) |-> IF k < m THEN ins[k] ELSE ins[k + 1]],
                     hs)

\* Line 74: sum(bigram_counts[(word, w)] for w in following_words).
RECURSIVE SumCounts(_, _, _, _)
SumCounts(bc, word, order, i) ==
    IF i > Len(order) THEN 0
    ELSE Get(bc, <<word, order[i]>>, 0) + SumCounts(bc, word, order, i + 1)

\* CumList with "=" for "+=": each entry holds its own probability.
CumListNoSum(bc, word, order) ==
    LET total_count == SumCounts(bc, word, order, 1)
    IN  [i \in 1..Len(order) |->
            <<order[i], <<Get(bc, <<word, order[i]>>, 0), total_count>>>>]

\* Lines 75-79: the list of (w, cumulative_probability), the probability
\* kept as the exact fraction <<running count, total_count>>.
CumList(bc, word, order) ==
    LET total_count == SumCounts(bc, word, order, 1)
    IN  [i \in 1..Len(order) |->
            <<order[i], <<SumCounts(bc, word, SubSeq(order, 1, i), 1), total_count>>>>]

\* calculate_cumulative_probabilities, from entry i of get_following_words()
\* on: cumulative_probs[word] is assigned, no other entry is touched.
RECURSIVE CalcFrom(_, _, _, _, _)
CalcFrom(probs, bc, fw, hs, i) ==
    IF i > Len(fw) THEN probs
    ELSE CalcFrom(Put(probs, fw[i][1], CumList(bc, fw[i][1], SetIter(fw[i][2], hs))),
                  bc, fw, hs, i + 1)

calculate_cumulative_probabilities(probs, bc, hs) ==
    CalcFrom(probs, bc, get_following_words(bc), hs, 1)

\* ------------------------------------------------------- random source

\* Modulus of the generator that stands in for the module-level Mersenne
\* Twister of random: random.random() returns rng / RandMod, in [0, 1).
RandMod == 4

\* random.seed that leaves the generator as it finds it.
SeedIgnored(seed) == rng

\* random.seed(seed): the state is a function of the seed alone.
Seed(seed) == seed % RandMod

\* The state after one random.random(); the value drawn is that state.
Random(x) == (5 * x + 3) % RandMod

\* rand < cumulative_probability, rand = r / RandMod, cum = <<num, den>>.
Less(r, cum) == r * cum[2] < cum[1] * RandMod

\* Lines 110-113: index of the first entry with rand < cumulative_probability,
\* 0 when the scan runs off the end (the for-else of line 114).
RECURSIVE Scan(_, _, _)
Scan(dist, r, i) ==
    IF i > Len(dist) THEN 0
    ELSE IF Less(r, dist[i][2]) THEN i
    ELSE Scan(dist, r, i + 1)

\* " ".join(words)
RECURSIVE Join(_)
Join(words) ==
    IF words = <<>> THEN <<>>
    ELSE IF Len(words) = 1 THEN words[1]
    ELSE words[1] \o <<" ">> \o Join(Tail(words))

\* Lines 117-120: the returned dict, completion[len(tokens):] and its join.
Returned(tokens, completion) ==
    LET rest == SubSeq(completion, Len(tokens) + 1, Len(completion))
    IN  [raised |-> None, completion |-> Join(rest), tokens |-> rest]

\* What a caller holds after completion[-1] raised on an empty list.
IndexError == [raised |-> "IndexError", completion |-> <<>>, tokens |-> <<>>]

\* The whole of sample run with a random source of its own, seeded with
\* seed, from iteration n on: what the call returns when nothing else
\* touches the generator.
RECURSIVE SampleLoop(_, _, _, _, _, _)
SampleLoop(probs, tokens, completion, n, max_tokens, x) ==
    IF n >= max_tokens THEN Returned(tokens, completion)
    ELSE IF completion = <<>> THEN IndexError
    ELSE LET last_word == completion[Len(completion)] IN
         IF ~Has(probs, last_word) THEN Returned(tokens, completion)
         ELSE LET rand == Random(x)
                  dist == Get(probs, last_word, <<>>)
                  k == Scan(dist, rand, 1)
              IN  IF k = 0 THEN Returned(tokens, completion)
                  ELSE SampleLoop(probs, tokens, Append(completion, dist[k][1]),
                                  n + 1, max_tokens, rand)

SampleAlone(probs, tokens, max_tokens, seed) ==
    SampleLoop(probs, tokens, tokens, 0, max_tokens, Seed(seed[1]))

\* ---------------------------------------------------------------- inputs

\* Corpus lines as "for line in f" yields them, without the line break:
\*   ' !'      no token
\*   ' A!b'    a b
\*   'a a b'   a a b
\*   'b=" "'   the single token b=" "
LineBlank == <<" ", "!">>
LineAB == <<" ", "A", "!", "b">>
LineAAB == <<"a", " ", "a", " ", "b">>
LineQuoted == <<"b", "=", Quote, " ", Quote>>

CorpusLines == {LineBlank, LineAB, LineAAB, LineQuoted}

\* The corpus files: every sequence of at most MaxLines corpus lines.
Corpora == UNION {[1..n -> CorpusLines] : n \in 0..MaxLines}

\* The corpora the sampled models are built from.
SampleCorpora == {<<LineAAB>>, <<LineAAB, LineAB>>}

\* Prefixes: '! ' holds no token, 'b A ' ends in the token a.
Prefixes == {<<"!", " ">>, <<"b", " ", "A", " ">>}

\* seed=None is <<>>, seed=k is <<k>>.
NoSeed == <<>>

Seeds == {NoSeed, <<1>>, <<2>>}

HashSeeds == {0, 1}

Callers == {1, 2}

\* ------------------------------------------------------------ initial state

NoResult == [raised |-> None, completion |-> <<>>, tokens |-> <<>>]

\* The file's field lines is history: the corpus lines behind its counts.
NoFile ==
    [state |-> "missing", bigram_counts |-> <<>>, word_counts |-> <<>>, lines |-> <<>>]

\* What the 'w' open and a json.dump that raised leave in the file.
InvalidFile ==
    [state |-> "invalid", bigram_counts |-> <<>>, word_counts |-> <<>>, lines |-> <<>>]

\* saved.trained: the object saved held counts that train alone produced.
NotSaved ==
    [valid |-> FALSE, trained |-> FALSE, bc |-> <<>>, wc |-> <<>>, probs |-> <<>>]

IdleFrame ==
    [pc |-> "idle", tokens |-> <<>>, completion |-> <<>>, n |-> 0,
     max_tokens |-> 0, seed |-> NoSeed, result |-> NoResult, halt |-> None]

\* last.fresh: the object load_model was called on was as __init__ leaves it.
NoOp == [op |-> None, outcome |-> None, fresh |-> FALSE]

Idle == [c \in Callers |-> IdleFrame]

\* __init__ (lines 36-39) in a process that has just started.
Init ==
    /\ bigram_counts = <<>>
    /\ word_counts = <<>>
    /\ cumulative_probs = <<>>
    /\ rng \in 0..(RandMod - 1)
    /\ hashSeed \in HashSeeds
    /\ file = NoFile
    /\ proc = "running"
    /\ call = Idle
    /\ seen = <<>>
    /\ loaded = FALSE
    /\ last = NoOp
    /\ saved = NotSaved

Quiet == \A c \in Callers : call[c].pc # "loop"

\* ------------------------------------------------------ model operations

\* model = BigramModel() (lines 36-39): a fresh object in the same process.
New ==
    /\ proc = "running" /\ Quiet
    /\ bigram_counts' = <<>>
    /\ word_counts' = <<>>
    /\ cumulative_probs' = <<>>
    /\ call' = Idle
    /\ seen' = <<>>
    /\ loaded' = FALSE
    /\ last' = NoOp
    /\ UNCHANGED <<rng, hashSeed, file, proc, saved>>

\* A new run of the program (lines 150-168): a new process with its own hash
\* seed and generator state and a fresh object; the model file stays.
Restart ==
    /\ Quiet
    /\ bigram_counts' = <<>>
    /\ word_counts' = <<>>
    /\ cumulative_probs' = <<>>
    /\ rng' \in 0..(RandMod - 1)
    /\ hashSeed' \in HashSeeds
    /\ proc' = "running"
    /\ call' = Idle
    /\ seen' = <<>>
    /\ loaded' = FALSE
    /\ last' = NoOp
    /\ UNCHANGED <<file, saved>>

\* train (lines 48-67) on a corpus file holding the lines of corpus.
Train(corpus) ==
    /\ proc = "running" /\ Quiet
    /\ Len(seen) + Len(corpus) <= MaxLines
    /\ LET m == TrainLines([bc |-> bigram_counts, wc |-> word_counts], corpus, 1)
       IN  /\ bigram_counts' = m.bc
           /\ word_counts' = m.wc
           /\ cumulative_probs' =
                  calculate_cumulative_probabilities(cumulative_probs, m.bc, hashSeed)
    /\ seen' = seen \o corpus
    /\ call' = Idle
    /\ last' = [op |-> "train", outcome |-> "ok", fresh |-> FALSE]
    /\ saved' = NotSaved
    /\ UNCHANGED <<rng, hashSeed, file, proc, loaded>>

\* json.dump of model_data (lines 126-131): a dict key that is a tuple
\* raises TypeError, and every key of bigram_counts is one.
JsonDump(bc, wc, lines) ==
    IF Len(bc) > 0 THEN [raised |-> "TypeError", text |-> InvalidFile]
    ELSE [raised |-> None,
          text |-> [state |-> "json", bigram_counts |-> bc, word_counts |-> wc,
                    lines |-> lines]]

\* save_model (lines 122-131).  open(model_file, 'w') truncates the file
\* before json.dump runs, so a dump that raises leaves an unfinished JSON
\* text behind.
SaveModel ==
    /\ proc = "running" /\ Quiet
    /\ LET data == JsonDump(bigram_counts, word_counts, seen)
       IN  /\ file' = data.text
           /\ last' = [op |-> "save_model", fresh |-> FALSE,
                       outcome |-> IF data.raised = None THEN "ok" ELSE data.raised]
    /\ saved' = [valid |-> TRUE, trained |-> ~loaded, bc |-> bigram_counts,
                 wc |-> word_counts, probs |-> cumulative_probs]
    /\ call' = Idle
    /\ UNCHANGED <<bigram_counts, word_counts, cumulative_probs, rng, hashSeed,
                   proc, seen, loaded>>

\* load_model (lines 133-148).  A missing file and invalid JSON both end in
\* exit(1); otherwise both counts are replaced and the distributions are
\* recalculated over the cumulative_probs the object already holds.
LoadModel ==
    /\ proc = "running" /\ Quiet
    /\ call' = Idle
    /\ IF file.state \in {"missing", "invalid"}
       THEN /\ proc' = "exited"
            /\ bigram_counts' = <<>>
            /\ word_counts' = <<>>
            /\ cumulative_probs' = <<>>
            /\ seen' = <<>>
            /\ loaded' = FALSE
            /\ last' = [op |-> "load_model", outcome |-> "exit",
                        fresh |-> model = <<<<>>, <<>>, <<>>>>]
       ELSE /\ bigram_counts' = file.bigram_counts
            /\ word_counts' = file.word_counts
            /\ cumulative_probs' =
                   calculate_cumulative_probabilities(cumulative_probs,
                                                      file.bigram_counts, hashSeed)
            /\ loaded' = TRUE
            /\ last' = [op |-> "load_model", outcome |-> "ok",
                        fresh |-> model = <<<<>>, <<>>, <<>>>>]
            /\ seen' = file.lines
            /\ UNCHANGED proc
    /\ UNCHANGED <<rng, hashSeed, file, saved>>

\* -------------------------------------------------------------- sampling

\* sample, lines 97-101: seed the shared generator, tokenize the prefix.
SampleCall(c, prefix, max_tokens, seed) ==
    /\ proc = "running"
    /\ call[c].pc # "loop"
    /\ rng' = IF seed # NoSeed THEN Seed(seed[1]) ELSE rng
    /\ LET tokens == tokenize(Lower(Strip(prefix)))
       IN  call' = [call EXCEPT ![c] =
                       [pc |-> "loop", tokens |-> tokens, completion |-> tokens,
                        n |-> 0, max_tokens |-> max_tokens, seed |-> seed,
                        result |-> NoResult, halt |-> None]]
    /\ last' = NoOp
    /\ saved' = NotSaved
    /\ UNCHANGED <<bigram_counts, word_counts, cumulative_probs, hashSeed, file,
                   proc, seen, loaded>>

\* SampleIter whose lookup of an unknown last word stores an empty list for
\* it, as a defaultdict would.
SampleIterStoring(c) ==
    LET f == call[c] IN
    /\ f.pc = "loop"
    /\ f.n < f.max_tokens
    /\ IF f.completion = <<>>
       THEN /\ call' = [call EXCEPT ![c].pc = "done", ![c].result = IndexError]
            /\ UNCHANGED <<rng, cumulative_probs>>
       ELSE LET last_word == f.completion[Len(f.completion)] IN
            IF ~Has(cumulative_probs, last_word)
            THEN /\ call' = [call EXCEPT ![c].pc = "done", ![c].halt = "unknown",
                                 ![c].result = Returned(f.tokens, f.completion)]
                 /\ cumulative_probs' = Put(cumulative_probs, last_word, <<>>)
                 /\ rng' = rng
            ELSE LET rand == Random(rng)
                     dist == Get(cumulative_probs, last_word, <<>>)
                     k == Scan(dist, rand, 1)
                 IN  /\ rng' = rand
                     /\ cumulative_probs' = cumulative_probs
                     /\ IF k = 0
                        THEN call' = [call EXCEPT ![c].pc = "done",
                                          ![c].halt = "degenerate",
                                          ![c].result = Returned(f.tokens, f.completion)]
                        ELSE call' = [call EXCEPT ![c].n = f.n + 1,
                                          ![c].completion = Append(f.completion, dist[k][1])]
    /\ UNCHANGED <<bigram_counts, word_counts, hashSeed, file,
                   proc, seen, loaded, last, saved>>

\* One iteration of "for _ in range(max_tokens)" (lines 103-115); a break
\* runs on to the return of lines 117-120.
SampleIter(c) ==
    LET f == call[c] IN
    /\ f.pc = "loop"
    /\ f.n < f.max_tokens
    /\ IF f.completion = <<>>
       THEN \* completion[-1] on an empty list
            /\ call' = [call EXCEPT ![c].pc = "done", ![c].result = IndexError]
            /\ rng' = rng
       ELSE LET last_word == f.completion[Len(f.completion)] IN
            IF ~Has(cumulative_probs, last_word)
            THEN /\ call' = [call EXCEPT ![c].pc = "done", ![c].halt = "unknown",
                                 ![c].result = Returned(f.tokens, f.completion)]
                 /\ rng' = rng
            ELSE LET rand == Random(rng)
                     dist == Get(cumulative_probs, last_word, <<>>)
                     k == Scan(dist, rand, 1)
                 IN  /\ rng' = rand
                     /\ IF k = 0
                        THEN call' = [call EXCEPT ![c].pc = "done",
                                          ![c].halt = "degenerate",
                                          ![c].result = Returned(f.tokens, f.completion)]
                        ELSE call' = [call EXCEPT ![c].n = f.n + 1,
                                          ![c].completion = Append(f.completion, dist[k][1])]
    /\ UNCHANGED <<bigram_counts, word_counts, cumulative_probs, hashSeed, file,
                   proc, seen, loaded, last, saved>>

\* The loop ran max_tokens times: the return of lines 117-120.
SampleReturn(c) ==
    LET f == call[c] IN
    /\ f.pc = "loop"
    /\ f.n >= f.max_tokens
    /\ call' = [call EXCEPT ![c].pc = "done",
                    ![c].result = Returned(f.tokens, f.completion)]
    /\ UNCHANGED <<bigram_counts, word_counts, cumulative_probs, rng, hashSeed,
                   file, proc, seen, loaded, last, saved>>

\* --------------------------------------------------------- specifications

\* The life of the model object and of the model file: construction,
\* training, saving and loading, over any number of program runs.
Next ==
    \/ New
    \/ Restart
    \/ \E corpus \in Corpora : Train(corpus)
    \/ SaveModel
    \/ LoadModel

Spec == Init /\ [][Next]_vars

\* A model built by one train call, after which it is only sampled from.
InitBuilt ==
    /\ rng \in 0..(RandMod - 1)
    /\ hashSeed \in HashSeeds
    /\ \E corpus \in SampleCorpora :
           LET m == TrainLines([bc |-> <<>>, wc |-> <<>>], corpus, 1)
           IN  /\ bigram_counts = m.bc
               /\ word_counts = m.wc
               /\ cumulative_probs =
                      calculate_cumulative_probabilities(<<>>, m.bc, hashSeed)
               /\ seen = corpus
    /\ file = NoFile
    /\ proc = "running"
    /\ call = Idle
    /\ loaded = FALSE
    /\ last = NoOp
    /\ saved = NotSaved

\* No caller but c is inside a sample call.
OthersQuiet(c) == \A d \in Callers \ {c} : call[d].pc # "loop"

\* Two callers of one built model, their sample calls one after the other.
NextSeq ==
    \E c \in Callers :
        \/ /\ OthersQuiet(c)
           /\ \E prefix \in Prefixes, max_tokens \in 0..MaxTokens, seed \in Seeds :
                  SampleCall(c, prefix, max_tokens, seed)
        \/ OthersQuiet(c) /\ SampleIter(c)
        \/ OthersQuiet(c) /\ SampleReturn(c)

SpecSeq == InitBuilt /\ [][NextSeq]_vars

\* Two callers of one built model, each call with a seed of its own, the
\* steps of their sample calls interleaved at will: random.seed and
\* random.random are atomic, a switch of threads may fall between any two.
NextConc ==
    \E c \in Callers :
        \/ \E prefix \in Prefixes, max_tokens \in 0..MaxTokens, seed \in Seeds \ {NoSeed} :
               SampleCall(c, prefix, max_tokens, seed)
        \/ SampleIter(c)
        \/ SampleReturn(c)

SpecConc == InitBuilt /\ [][NextConc]_vars

\* ------------------------------------------------------------ properties

\* The tokens of corpus line i of seen.
SeenTokens(i) == tokenize(Lower(Strip(seen[i])))

SeenVocabulary == UNION {{SeenTokens(i)[j] : j \in 1..Len(SeenTokens(i))} : i \in 1..Len(seen)}

\* Occurrences of token t in the lines 1..k of seen.
RECURSIVE Occurrences(_, _)
Occurrences(t, k) ==
    IF k = 0 THEN 0
    ELSE Occurrences(t, k - 1)
         + Cardinality({j \in 1..Len(SeenTokens(k)) : SeenTokens(k)[j] = t})

\* Positions in the lines 1..k of seen where a is directly followed by b.
RECURSIVE Adjacencies(_, _, _)
Adjacencies(a, b, k) ==
    IF k = 0 THEN 0
    ELSE Adjacencies(a, b, k - 1)
         + Cardinality({j \in 1..(Len(SeenTokens(k)) - 1) :
                           SeenTokens(k)[j] = a /\ SeenTokens(k)[j + 1] = b})

\* Sum over the lines 1..k of seen of (number of tokens - 1), 0 for a line
\* without tokens.
RECURSIVE PairPositions(_)
PairPositions(k) ==
    IF k = 0 THEN 0
    ELSE PairPositions(k - 1)
         + (IF SeenTokens(k) = <<>> THEN 0 ELSE Len(SeenTokens(k)) - 1)

RECURSIVE SumValues(_, _)
SumValues(d, i) == IF i > Len(d) THEN 0 ELSE d[i][2] + SumValues(d, i + 1)

NoDuplicateKeys(d) == \A i, j \in 1..Len(d) : d[i][1] = d[j][1] => i = j

\* The predecessors of the current bigram counts.
Predecessors == {bigram_counts[i][1][1] : i \in 1..Len(bigram_counts)}

Successors(P) ==
    {bigram_counts[i][1][2] : i \in {k \in 1..Len(bigram_counts) : bigram_counts[k][1][1] = P}}

Done(c) == call[c].pc = "done"

Seeded(c) == call[c].seed # NoSeed

\* C1: a sample call whose prefix holds no token does not fail, whatever
\* max_tokens is: it returns the empty completion, completion "" and tokens [].
C1_EmptyPrefixReturnsEmpty ==
    \A c \in Callers :
        Done(c) /\ call[c].tokens = <<>> => call[c].result = NoResult

\* C2: save_model on a model produced by train succeeds, load_model of the
\* saved file into a fresh BigramModel succeeds, and the loaded object holds
\* the saved bigram counts, word counts and distributions.
C2_RoundTrip ==
    /\ last.op = "save_model" /\ ~loaded =>
           /\ last.outcome = "ok"
           /\ file.state = "json"
           /\ file.bigram_counts = bigram_counts
           /\ file.word_counts = word_counts
    /\ last.op = "load_model" /\ saved.valid /\ saved.trained /\ last.fresh =>
           /\ last.outcome = "ok"
           /\ bigram_counts = saved.bc
           /\ word_counts = saved.wc
           /\ cumulative_probs = saved.probs

\* C3: for every predecessor P the successors of P's distribution stand in
\* the order in which the pairs (P, s) were first inserted into the bigram
\* counts.
C3_FirstObservationOrder ==
    \A P \in Predecessors :
        LET dist == Get(cumulative_probs, P, <<>>)
        IN  [k \in 1..Len(dist) |-> dist[k][1]]
                = Get(get_following_words(bigram_counts), P, <<>>)

\* C4: on one model, two sample calls with the same prefix, max_tokens and
\* seed return the same result, whatever calls ran before or between them.
C4_Determinism ==
    \A c, d \in Callers :
        (/\ Done(c) /\ Done(d) /\ Seeded(c)
         /\ call[c].seed = call[d].seed
         /\ call[c].tokens = call[d].tokens
         /\ call[c].max_tokens = call[d].max_tokens)
        => call[c].result = call[d].result

\* C4's case: both callers hold the result of the same seeded call, and it
\* has two generated tokens.
C4_Witness ==
    /\ Done(1) /\ Done(2) /\ Seeded(1)
    /\ call[1].seed = call[2].seed
    /\ call[1].tokens = call[2].tokens
    /\ call[1].max_tokens = call[2].max_tokens
    /\ call[1].result.raised = None
    /\ Len(call[1].result.tokens) = 2

\* C5: every sample call returns, with at most max_tokens completion
\* tokens, which are the tokens generated after the prefix; with max_tokens
\* 0 the completion is empty; fewer than max_tokens tokens are returned only
\* after the unknown-context halt or the no-entry halt.
C5_BoundedCompletion ==
    \A c \in Callers :
        Done(c) =>
            LET f == call[c] IN
            /\ f.result.raised = None
            /\ Len(f.result.tokens) <= f.max_tokens
            /\ f.completion = f.tokens \o f.result.tokens
            /\ f.max_tokens = 0 => f.result.tokens = <<>> /\ f.result.completion = <<>>
            /\ Len(f.result.tokens) < f.max_tokens => f.halt \in {"unknown", "degenerate"}

\* C6: after train from an empty model, word_counts[t] is the number of
\* occurrences of t in the lines read, bigram_counts[(a, b)] the number of
\* places where a is directly followed by b inside one line, a pair never
\* seen has no key, and a line of n >= 1 tokens adds n - 1 to the sum of the
\* bigram counts.
C6_TrainCounts ==
    ~loaded /\ proc = "running" =>
        /\ NoDuplicateKeys(word_counts) /\ NoDuplicateKeys(bigram_counts)
        /\ Keys(word_counts) = SeenVocabulary
        /\ \A t \in SeenVocabulary : Get(word_counts, t, 0) = Occurrences(t, Len(seen))
        /\ \A a, b \in SeenVocabulary :
               /\ Get(bigram_counts, <<a, b>>, 0) = Adjacencies(a, b, Len(seen))
               /\ Has(bigram_counts, <<a, b>>) <=> Adjacencies(a, b, Len(seen)) >= 1
        /\ Keys(bigram_counts) \subseteq SeenVocabulary \X SeenVocabulary
        /\ SumValues(bigram_counts, 1) = PairPositions(Len(seen))

\* C6's case: train has read two lines of two or more tokens and a line
\* without tokens is among the corpus lines, and the pair made of the last
\* token of line 1 and the first token of line 2 was never seen in a line.
C6_Witness ==
    /\ ~loaded /\ last.op = "train" /\ Len(seen) = 2
    /\ Len(SeenTokens(1)) >= 2 /\ Len(SeenTokens(2)) >= 3
    /\ ~Has(bigram_counts, <<SeenTokens(1)[Len(SeenTokens(1))], SeenTokens(2)[1]>>)

\* C7: for every predecessor P, P's distribution has one entry per distinct
\* successor of P, each entry adds bigram_counts[(P, s)] / total to the
\* cumulative value with total the sum of P's successor counts, total >= 1,
\* the cumulative values do not decrease and the last one is total / total.
C7_Distribution ==
    \A P \in Predecessors :
        LET dist == Get(cumulative_probs, P, <<>>)
            total == SumValues(SelectSeq(bigram_counts, LAMBDA e : e[1][1] = P), 1)
            Num(k) == IF k = 0 THEN 0 ELSE dist[k][2][1]
        IN  /\ Has(cumulative_probs, P)
            /\ Len(dist) = Cardinality(Successors(P))
            /\ {dist[k][1] : k \in 1..Len(dist)} = Successors(P)
            /\ total >= 1
            /\ \A k \in 1..Len(dist) :
                   /\ dist[k][2][2] = total
                   /\ Num(k) - Num(k - 1) = Get(bigram_counts, <<P, dist[k][1]>>, 0)
                   /\ Num(k - 1) <= Num(k)
            /\ Num(Len(dist)) = total

\* C7's case: train has built the distribution of a predecessor with two
\* successors of different counts.
C7_Witness ==
    /\ last.op = "train"
    /\ \E P \in Predecessors :
           /\ Cardinality(Successors(P)) = 2
           /\ \E s, t \in Successors(P) :
                  Get(bigram_counts, <<P, s>>, 0) < Get(bigram_counts, <<P, t>>, 0)

\* C8: no step of a sample call changes word_counts, bigram_counts or
\* cumulative_probs.
C8_SampleFrame ==
    [][(\E c \in Callers : call'[c] # call[c]) => model' = model]_vars

\* C8's case: a sample call has drawn from the distributions and returned.
C8_Witness ==
    \E c \in Callers : Done(c) /\ Len(call[c].result.tokens) >= 1 /\ call[c].halt = "unknown"

\* C9: with sample calls interleaved, every seeded call returns what it
\* returns when it runs alone with that seed.
C9_ConcurrentAsAlone ==
    \A c \in Callers :
        Done(c) /\ Seeded(c) =>
            call[c].result =
                SampleAlone(cumulative_probs, call[c].tokens, call[c].max_tokens,
                            call[c].seed)

\* C10: after any train and load_model operations, a token has an entry in
\* cumulative_probs exactly if it is the first element of a key of the
\* current bigram counts.
C10_CacheMatchesCounts ==
    proc = "running" => Keys(cumulative_probs) = Predecessors

====
